---- MODULE Spec2Model ----
(***************************************************************************)
(* Causal-State Splitting Reconstruction (rust-cssr).                      *)
(*                                                                         *)
(* The model follows src/src/lib.rs: the CSSR object (its alphabet and its *)
(* set of causal states), CSSR::run generation by generation, the          *)
(* Distribution Estimator compute_next_symbol_dist and the Equivalence      *)
(* Tester are_distributions_similar.                                        *)
(*                                                                         *)
(* Probabilities are exact fractions <<n, d>> in lowest terms: the code    *)
(* divides two small counts in f32, and two such quotients are the same    *)
(* float exactly when the fractions are equal.                             *)
(***************************************************************************)
EXTENDS Integers, Sequences, FiniteSets

\* ------------------------------------------------------------------ bounds

\* Symbols are 0..MaxSymbol.
MaxSymbol == 2

\* Longest data sequence drawn over all the symbols.
MaxLen == 3

\* Longest data sequence drawn over the symbols 0 and 1.
MaxBinaryLen == 6

\* max_history ranges over 0..Len(data)+MaxExtra: past Len(data) no history
\* has data support any more.
MaxExtra == 1

\* Number of times run is called on one CSSR instance (SpecRerun).
MaxRuns == 2

\* Largest denominator of the probabilities handed to the tester (SpecTester).
MaxDen == 4

\* Longest distribution vector handed to the tester (SpecTester).
MaxVecLen == 3

\* Length of the data sequences of tests/cssr_tests.rs and of the scenarios.
ScenarioLen == 10

Symbols == 0..MaxSymbol

\* ------------------------------------------------------------------ state

VARIABLES
    alphabet,      \* CSSR.alphabet
    alphaOrder,    \* the order in which the alphabet HashSet is iterated
    states,        \* CSSR.states
    data,          \* run's argument data
    max_history,   \* run's argument max_history
    alpha,         \* run's argument alpha, in percent
    l,             \* the loop variable of run
    pc,            \* "idle" (constructed), "loop" (at the loop head), "done"
    runs,          \* how many times run was called
    carried,       \* the states the current run carried forward (line 112)
    tA, tB, tAlpha, tResult   \* one call of are_distributions_similar

vars == <<alphabet, alphaOrder, states, data, max_history, alpha, l, pc, runs, carried, tA, tB, tAlpha, tResult>>

cssrVars == <<alphabet, alphaOrder, states, data, max_history, alpha, l, pc, runs, carried>>

testerVars == <<tA, tB, tAlpha, tResult>>

\* ------------------------------------------------------------- arithmetic

Range(s) == {s[i] : i \in 1..Len(s)}

RECURSIVE GCD(_, _)
GCD(a, b) == IF b = 0 THEN a ELSE GCD(b, a % b)

Abs(x) == IF x < 0 THEN -x ELSE x

\* The fraction n/d (d > 0) in lowest terms.
Frac(n, d) ==
    LET g == GCD(Abs(n), d) IN <<n \div g, d \div g>>

Zero == <<0, 1>>

One == <<1, 1>>

FracAdd(p, q) ==
    LET g == GCD(p[2], q[2])
    IN  Frac(p[1] * (q[2] \div g) + q[1] * (p[2] \div g), (p[2] \div g) * q[2])

Positive(p) == p[1] > 0

\* (a - b)^2 / b for b > 0.
ChiTerm(a, b) ==
    LET diff == a[1] * b[2] - b[1] * a[2]
    IN  Frac(diff * diff, a[2] * a[2] * b[2] * b[1])

RECURSIVE SumSeq(_)
SumSeq(s) == IF s = <<>> THEN Zero ELSE FracAdd(s[1], SumSeq(Tail(s)))

\* The elements of a set of numbers in increasing order.
RECURSIVE SortedSeq(_)
SortedSeq(S) ==
    IF S = {} THEN <<>>
    ELSE LET m == CHOOSE x \in S : \A y \in S : x <= y
         IN  <<m>> \o SortedSeq(S \ {m})

IterationOrders(S) ==
    {f \in [1..Cardinality(S) -> S] : \A i, j \in 1..Cardinality(S) : f[i] = f[j] => i = j}

\* ----------------------------------------------------- Equivalence Tester

\* The significance levels alpha the model draws, in percent.
AlphaLevels == {1, 5, 50, 90}

\* Upper critical values of the chi-square distribution, in thousandths:
\* 1 - cdf_dof(x) > alpha exactly when x < ChiSquareCritical[alpha][dof].
ChiSquareCritical ==
    [a \in AlphaLevels |->
        CASE a = 1  -> <<6635, 9210, 11345, 13277>>
          [] a = 5  -> <<3841, 5991, 7815, 9488>>
          [] a = 50 -> <<455, 1386, 2366, 3357>>
          [] a = 90 -> <<16, 211, 584, 1064>>]

\* Mutant of PValueAbove: the comparison of line 250 turned round.
PValueBelow(stat, dof, a) == stat[1] * 1000 > ChiSquareCritical[a][dof] * stat[2]

\* p_value > alpha for the statistic stat and dof >= 1 degrees of freedom.
PValueAbove(stat, dof, a) == stat[1] * 1000 < ChiSquareCritical[a][dof] * stat[2]

\* Mutant of are_distributions_similar: without the branch of lines 221-225.
similar_ignoring_support(a, b, al) ==
    LET idx == 1..Len(a)
        scored == {i \in idx : Positive(b[i])}
        chi_square_stat == SumSeq([i \in idx |-> IF i \in scored THEN ChiTerm(a[i], b[i]) ELSE Zero])
        degrees_of_freedom == Cardinality(scored)
        dof == degrees_of_freedom - 1
    IN  IF degrees_of_freedom = 0 THEN TRUE
        ELSE IF dof <= 0 THEN TRUE
        ELSE chi_square_stat[1] * 1000 < ChiSquareCritical[al][dof] * chi_square_stat[2]

are_distributions_similar(a, b, al) ==
    LET idx == 1..Len(a)
        scored == {i \in idx : Positive(b[i])}
        chi_square_stat == SumSeq([i \in idx |-> IF i \in scored THEN ChiTerm(a[i], b[i]) ELSE Zero])
        degrees_of_freedom == Cardinality(scored)
        dof == degrees_of_freedom - 1
    IN  IF \E i \in idx : ~Positive(b[i]) /\ Positive(a[i]) THEN FALSE
        ELSE IF degrees_of_freedom = 0 THEN TRUE
        ELSE IF dof <= 0 THEN TRUE
        ELSE PValueAbove(chi_square_stat, dof, al)

\* -------------------------------------------------- Distribution Estimator

\* histories.iter().next().unwrap().len()
HistoryLen(histories) == Len(CHOOSE h \in histories : TRUE)

\* The positions of the data whose symbol is tallied (lines 160-177): every
\* position when the histories are empty sequences, else the position after
\* each window of the data that is one of the histories.
Tallied(histories, d) ==
    LET history_len == HistoryLen(histories)
    IN  IF history_len = 0 THEN 1..Len(d)
        ELSE IF Len(d) > history_len
             THEN {i + history_len + 1 : i \in {i \in 0..(Len(d) - history_len - 1) :
                                                    SubSeq(d, i + 1, i + history_len) \in histories}}
             ELSE {}

compute_next_symbol_dist(histories, d, alph) ==
    IF histories = {} THEN [s \in alph |-> Zero]
    ELSE LET tallied == Tallied(histories, d)
             total_count == Cardinality(tallied)
         IN  [s \in alph \cup {d[i] : i \in tallied} |->
                 IF total_count > 0
                 THEN Frac(Cardinality({i \in tallied : d[i] = s}), total_count)
                 ELSE Zero]

\* ------------------------------------------------------------ State Builder

CausalState(histories, dist) == [histories |-> histories, next_symbol_dist |-> dist]

\* HashSet<CausalState>::insert: two states are equal when their histories are.
Insert(set, st) ==
    IF \E s \in set : s.histories = st.histories THEN set ELSE set \cup {st}

\* Mutant of Extend: the extended histories are added to the parent's.
ExtendKeepingOld(state, symbol, len) ==
    state.histories \cup {Append(h, symbol) : h \in {h \in state.histories : Len(h) = len}}

\* lines 88-96
Extend(state, symbol, len) ==
    {Append(h, symbol) : h \in {h \in state.histories : Len(h) = len}}

\* lines 98-102
Candidate(state, symbol, len, d, alph) ==
    CausalState(Extend(state, symbol, len), compute_next_symbol_dist(Extend(state, symbol, len), d, alph))

\* Mutant of Supported: every candidate counts as supported.
SupportedAlways(st) == TRUE

\* line 105
Supported(st) == \E s \in DOMAIN st.next_symbol_dist : Positive(st.next_symbol_dist[s])

\* potential_new_states after the loop over the alphabet (lines 85-109).
PotentialNewStates(state, len, d, alph, order) ==
    SelectSeq([i \in 1..Len(order) |-> Candidate(state, order[i], len, d, alph)],
              LAMBDA st : st.histories # {} /\ Supported(st))

\* lines 120-124
DistVector(st, alph) ==
    LET alphabet_vec == SortedSeq(alph)
    IN  [i \in 1..Len(alphabet_vec) |->
            IF alphabet_vec[i] \in DOMAIN st.next_symbol_dist
            THEN st.next_symbol_dist[alphabet_vec[i]] ELSE Zero]

\* Mutant of Absorb: the group keeps its distribution (line 128 missing).
AbsorbKeepingDist(merged_state, current_state, d, alph) ==
    CausalState(merged_state.histories \cup current_state.histories, merged_state.next_symbol_dist)

\* lines 127-128
Absorb(merged_state, current_state, d, alph) ==
    CausalState(merged_state.histories \cup current_state.histories,
                compute_next_symbol_dist(merged_state.histories \cup current_state.histories, d, alph))

\* Mutant of MergeLoop: without the continue of line 129 the absorbed state
\* is pushed as a group of its own as well.
RECURSIVE MergeLoopNoContinue(_, _, _, _, _)
MergeLoopNoContinue(potential_new_states, merged_states, d, alph, al) ==
    IF potential_new_states = <<>> THEN merged_states
    ELSE LET n == Len(potential_new_states)
             current_state == potential_new_states[n]
             rest == SubSeq(potential_new_states, 1, n - 1)
             hits == {j \in 1..Len(merged_states) :
                         are_distributions_similar(DistVector(current_state, alph),
                                                   DistVector(merged_states[j], alph), al)}
         IN  IF hits = {}
             THEN MergeLoopNoContinue(rest, Append(merged_states, current_state), d, alph, al)
             ELSE LET j == CHOOSE j \in hits : \A k \in hits : j <= k
                  IN  MergeLoopNoContinue(rest,
                                Append([merged_states EXCEPT ![j] = Absorb(merged_states[j], current_state, d, alph)],
                                       current_state),
                                d, alph, al)

\* lines 118-133: pop from the back, join the first similar group.
RECURSIVE MergeLoop(_, _, _, _, _)
MergeLoop(potential_new_states, merged_states, d, alph, al) ==
    IF potential_new_states = <<>> THEN merged_states
    ELSE LET n == Len(potential_new_states)
             current_state == potential_new_states[n]
             rest == SubSeq(potential_new_states, 1, n - 1)
             hits == {j \in 1..Len(merged_states) :
                         are_distributions_similar(DistVector(current_state, alph),
                                                   DistVector(merged_states[j], alph), al)}
         IN  IF hits = {}
             THEN MergeLoop(rest, Append(merged_states, current_state), d, alph, al)
             ELSE LET j == CHOOSE j \in hits : \A k \in hits : j <= k
                  IN  MergeLoop(rest,
                                [merged_states EXCEPT ![j] = Absorb(merged_states[j], current_state, d, alph)],
                                d, alph, al)

\* Mutant of Successors: a state without potential successors is dropped
\* (lines 111-114 missing).
SuccessorsDroppingUnextended(state, len, d, alph, order, al) ==
    LET potential_new_states == PotentialNewStates(state, len, d, alph, order)
    IN  IF potential_new_states = <<>> THEN {}
        ELSE Range(MergeLoop(potential_new_states, <<>>, d, alph, al))

\* What one parent state adds to new_states (lines 83-137).
Successors(state, len, d, alph, order, al) ==
    LET potential_new_states == PotentialNewStates(state, len, d, alph, order)
    IN  IF potential_new_states = <<>> THEN {state}
        ELSE Range(MergeLoop(potential_new_states, <<>>, d, alph, al))

\* new_states at line 140.  The states are visited in the HashSet's order and
\* insert keeps the first of two states with equal histories.
NewStateSets(sts, len, d, alph, order, al) ==
    LET raw == UNION {Successors(s, len, d, alph, order, al) : s \in sts}
    IN  IF \A x, y \in raw : x.histories = y.histories => x = y
        THEN {raw}
        ELSE {ns \in SUBSET raw :
                 /\ \A r \in raw : \E s \in ns : s.histories = r.histories
                 /\ \A x, y \in ns : x.histories = y.histories => x = y}

\* ------------------------------------------------------------------ inputs

ConstantData(n) == [i \in 1..n |-> 0]

AlternatingData(n) == [i \in 1..n |-> (i - 1) % 2]

Inputs ==
    UNION {[1..n -> Symbols] : n \in 0..MaxLen}
    \cup UNION {[1..n -> {0, 1}] : n \in 0..MaxBinaryLen}
    \cup {ConstantData(n) : n \in 0..ScenarioLen}
    \cup {AlternatingData(n) : n \in 0..ScenarioLen}

\* ----------------------------------------------------------------- actions

\* CSSR::new
InitCSSR ==
    /\ alphabet \in SUBSET Symbols
    /\ alphaOrder \in IterationOrders(alphabet)
    /\ states = {}
    /\ data = <<>>
    /\ max_history = 0
    /\ alpha = 5
    /\ l = 0
    /\ pc = "idle"
    /\ runs = 0
    /\ carried = {}

TesterIdle ==
    /\ tA = <<>>
    /\ tB = <<>>
    /\ tAlpha = 5
    /\ tResult = "none"

Init == InitCSSR /\ TesterIdle

\* CSSR::run up to the loop head (lines 71-77).  The alphabet is the set of
\* the symbols of the data.
RunCall(d, mh, al) ==
    /\ Range(d) = alphabet
    /\ data' = d
    /\ max_history' = mh
    /\ alpha' = al
    /\ states' = Insert(states, CausalState({<<>>}, compute_next_symbol_dist({<<>>}, d, alphabet)))
    /\ l' = 0
    /\ pc' = "loop"
    /\ runs' = runs + 1
    /\ carried' = {}
    /\ UNCHANGED <<alphabet, alphaOrder>>
    /\ UNCHANGED testerVars

Run ==
    /\ pc = "idle"
    /\ \E d \in Inputs : \E mh \in 0..(Len(d) + MaxExtra) : \E al \in AlphaLevels : RunCall(d, mh, al)

\* One iteration of the loop over l (lines 80-141).
Generation ==
    /\ pc = "loop"
    /\ l < max_history
    /\ states' \in NewStateSets(states, l, data, alphabet, alphaOrder, alpha)
    /\ carried' = carried \cup {s \in states : PotentialNewStates(s, l, data, alphabet, alphaOrder) = <<>>}
    /\ l' = l + 1
    /\ UNCHANGED <<alphabet, alphaOrder, data, max_history, alpha, pc, runs>>
    /\ UNCHANGED testerVars

\* The loop is over; run returns.
Return ==
    /\ pc = "loop"
    /\ l = max_history
    /\ pc' = "done"
    /\ UNCHANGED <<alphabet, alphaOrder, states, data, max_history, alpha, l, runs, carried>>
    /\ UNCHANGED testerVars

Next == Run \/ Generation \/ Return

\* A CSSR created by CSSR::new and run once, as src/bin/main.rs and the tests do.
Spec == Init /\ [][Next]_vars

\* ------------------------------------------- run called again on the object

RerunInputs == UNION {[1..n -> Symbols] : n \in 0..MaxLen}

FirstRun ==
    /\ pc = "idle"
    /\ \E d \in RerunInputs : \E mh \in 0..(Len(d) + MaxExtra) : \E al \in AlphaLevels : RunCall(d, mh, al)

Rerun ==
    /\ pc = "done"
    /\ runs < MaxRuns
    /\ \E d \in RerunInputs : \E mh \in 0..(Len(d) + MaxExtra) : \E al \in AlphaLevels : RunCall(d, mh, al)

NextRerun == FirstRun \/ Rerun \/ Generation \/ Return

\* A CSSR on which run is called up to MaxRuns times.
SpecRerun == Init /\ [][NextRerun]_vars

\* --------------------------------------------- the tester called on its own

\* The probabilities n/d with d <= MaxDen.
Probabilities == UNION {{Frac(n, d) : n \in 0..d} : d \in 1..MaxDen}

Vectors == UNION {[1..n -> Probabilities] : n \in 0..MaxVecLen}

\* v rotated left by k places.
Rotate(v, k) == [i \in 1..Len(v) |-> v[((i - 1 + k) % Len(v)) + 1]]

CSSRUnused ==
    /\ alphabet = {}
    /\ alphaOrder = <<>>
    /\ states = {}
    /\ data = <<>>
    /\ max_history = 0
    /\ alpha = 5
    /\ l = 0
    /\ pc = "tester"
    /\ runs = 0
    /\ carried = {}

InitTester ==
    /\ CSSRUnused
    /\ tA \in Vectors
    /\ tB = <<>>
    /\ tAlpha \in AlphaLevels
    /\ tResult = "none"

\* are_distributions_similar(a, b, alpha) with b a rotation of a (a itself included).
Compare ==
    /\ tResult = "none"
    /\ \E k \in {0} \cup 1..(Len(tA) - 1) :
        /\ tB' = Rotate(tA, k)
        /\ tResult' = IF are_distributions_similar(tA, Rotate(tA, k), tAlpha) THEN "similar" ELSE "different"
    /\ UNCHANGED <<tA, tAlpha>>
    /\ UNCHANGED cssrVars

NextTester == Compare

SpecTester == InitTester /\ [][NextTester]_vars

\* ------------------------------------------------------------------ claims

Finished == pc = "done"

InRun == pc \in {"loop", "done"}

\* C1: after every generation of a run on a freshly created CSSR, and in the
\* result, no history is a member of two different causal states.
C1_Partition ==
    InRun => \A s, t \in states : s # t => s.histories \cap t.histories = {}

\* C1 witness: a result of several states, one of them merged from two
\* successors, after at least two generations.
C1_Witness ==
    /\ Finished
    /\ l >= 2
    /\ Cardinality(states) >= 2
    /\ \E s \in states : Cardinality(s.histories) >= 2

\* The result of one generation when no two successors have equal histories.
GenerationResult(sts, len, d, alph, order, al) ==
    CHOOSE ns \in NewStateSets(sts, len, d, alph, order, al) : TRUE

\* The states after the generations len, ..., mh - 1.
RECURSIVE StatesAfter(_, _, _, _, _, _, _)
StatesAfter(sts, len, mh, d, alph, order, al) ==
    IF len >= mh THEN sts
    ELSE StatesAfter(GenerationResult(sts, len, d, alph, order, al), len + 1, mh, d, alph, order, al)

\* The result of run on a fresh CSSR whose alphabet is iterated in `order`.
RunResult(d, mh, alph, order, al) ==
    StatesAfter({CausalState({<<>>}, compute_next_symbol_dist({<<>>}, d, alph))}, 0, mh, d, alph, order, al)

\* C2: for fixed data, alphabet, max_history and alpha the result of run is
\* the same whatever the order in which the alphabet is iterated: it is the
\* result obtained with the alphabet in increasing order.
C2_OrderIndependent ==
    Finished => states = RunResult(data, max_history, alphabet, SortedSeq(alphabet), alpha)

\* C3: within every causal state, after every generation, all the member
\* histories have the same length.
C3_EqualLength ==
    InRun => \A s \in states : \A g, h \in s.histories : Len(g) = Len(h)

\* C3 witness: after two generations a state holds two histories of length 2.
C3_Witness ==
    /\ InRun
    /\ l = 2
    /\ \E s \in states : \E g, h \in s.histories : g # h /\ Len(g) = 2 /\ Len(h) = 2

ScenarioB == data = ConstantData(ScenarioLen) /\ alphabet = {0} /\ max_history >= 1

Min(a, b) == IF a <= b THEN a ELSE b

\* C4 as stated: on the constant sequence of ten 0s the result is the root
\* state alone, with the distribution {0: 1}.
C4_RootRetained ==
    (Finished /\ ScenarioB) => states = {CausalState({<<>>}, [s \in {0} |-> One])}

\* C4 as amended: on the constant sequence of ten 0s the result is one state,
\* whose only history is the all-0 history of length min(max_history, 9),
\* with the distribution {0: 1}.
C4_OneConstantState ==
    (Finished /\ ScenarioB) =>
        states = {CausalState({ConstantData(Min(max_history, ScenarioLen - 1))}, [s \in {0} |-> One])}

\* C4 witness: the run on ten 0s with max_history = 11 is over.
C4_Witness ==
    Finished /\ ScenarioB /\ max_history = ScenarioLen + 1 /\ Cardinality(states) = 1

\* C5: on strictly alternating data 0,1,0,1,... of length >= 3 with
\* max_history = 1 the result is the state {[0]} with {0: 0, 1: 1} and the
\* state {[1]} with {0: 1, 1: 0}, for every alpha and iteration order.
C5_Alternating ==
    (Finished /\ Len(data) >= 3 /\ data = AlternatingData(Len(data)) /\ max_history = 1) =>
        states = {CausalState({<<0>>}, [s \in {0, 1} |-> IF s = 1 THEN One ELSE Zero]),
                  CausalState({<<1>>}, [s \in {0, 1} |-> IF s = 0 THEN One ELSE Zero])}

\* C5 witness: the run of the test (ten symbols, max_history 1, alpha 0.01)
\* is over with two states.
C5_Witness ==
    /\ Finished
    /\ data = AlternatingData(ScenarioLen)
    /\ max_history = 1
    /\ alpha = 1
    /\ Cardinality(states) = 2

\* Number of positions i, 0 <= i < Len(data) - L, at which the window of
\* length L is one of the histories and the next symbol is s.
EmpiricalTally(histories, s) ==
    LET len == Len(CHOOSE h \in histories : TRUE)
    IN  Cardinality({i \in 0..(Len(data) - len - 1) :
            /\ \E h \in histories : \A k \in 1..len : data[i + k] = h[k]
            /\ data[i + len + 1] = s})

RECURSIVE SumOver(_, _)
SumOver(S, histories) ==
    IF S = {} THEN 0
    ELSE LET x == CHOOSE x \in S : TRUE
         IN  EmpiricalTally(histories, x) + SumOver(S \ {x}, histories)

RECURSIVE FracSum(_, _)
FracSum(S, dist) ==
    IF S = {} THEN Zero
    ELSE LET x == CHOOSE x \in S : TRUE
         IN  FracAdd(dist[x], FracSum(S \ {x}, dist))

C7_Reflexive ==
    (tResult # "none" /\ tA = tB) => tResult = "similar"

\* C7 witness: a vector with three positive entries was compared with itself.
C7_Witness ==
    /\ tResult = "similar"
    /\ tA = tB
    /\ Len(tA) = 3
    /\ \A i \in 1..3 : Positive(tA[i])

\* C8: every history of length L >= 1 of every state occurs in the data as a
\* window that has a next symbol.
C8_HistoriesSupported ==
    InRun =>
        \A st \in states : \A h \in st.histories :
            Len(h) >= 1 =>
                \E i \in 0..(Len(data) - Len(h) - 1) : SubSeq(data, i + 1, i + Len(h)) = h

\* C9: every call of run starts its loop from the model that holds the root
\* state and nothing else.
C9_StartsFromRoot ==
    (pc = "loop" /\ l = 0) =>
        /\ Cardinality(states) = 1
        /\ \A s \in states : s.histories = {<<>>}

====
